---------------------------- MODULE Spec2Model ----------------------------
(***************************************************************************)
(* A model of custom_components/dingz/api_v2.py: the JSON decoders of the  *)
(* dingz API v2 records and the DingzSessionV2 client.                     *)
(*                                                                         *)
(* JSON values are tagged records, so that values of different JSON types  *)
(* can be compared: Null, Bool(b), Num(n), Str(s), List(seq), Obj(f) with  *)
(* f a function from key strings to JSON values.  A decoded dataclass      *)
(* instance is Inst(cls, fields).  Floats are fixed point numbers counted  *)
(* in tenths (575 is 57.5).                                                *)
(***************************************************************************)
EXTENDS Integers, Sequences, FiniteSets, TLC

VARIABLES
    host,      \* DingzSessionV2.host
    op,        \* the last operation called
    args,      \* its arguments
    resp,      \* what the device answered to its request
    sent,      \* the HTTP requests the operation issued
    logs,      \* the log records the operation emitted
    result,    \* how the operation ended: a value returned or an error raised
    held,      \* a raw JSON mapping a caller of from_json holds
    outcomes   \* the outcomes of the from_json calls made on held so far

vars == <<host, op, args, resp, sent, logs, result, held, outcomes>>

---------------------------------------------------------------------------
(* Bounds of the model. *)

MaxIndex == 2        \* dimmer and blind indices are 0..MaxIndex
MaxDecodes == 2      \* from_json calls on one held raw mapping
MaxEntries == 2      \* entries of a JSON list or of the /device mapping
MaxFaults == 1       \* fields of one raw mapping that deviate from a well-formed one

---------------------------------------------------------------------------
(* JSON values and Python objects. *)

Null == [null |-> TRUE]
Bool(b) == [bool |-> b]
Num(n) == [num |-> n]
Str(s) == [str |-> s]
List(s) == [list |-> s]
Obj(f) == [obj |-> f]
Inst(cls, fields) == [cls |-> cls, fields |-> fields]

IsNull(v) == v = Null
IsList(v) == DOMAIN v = {"list"}
IsObj(v) == DOMAIN v = {"obj"}
IsInst(v) == DOMAIN v = {"cls", "fields"}
Keys(v) == DOMAIN v.obj
Has(v, k) == IsObj(v) /\ k \in Keys(v)

\* The empty mapping {}.
EmptyMap == [k \in {} |-> Null]

\* d[k] = v on a mapping: the key is added or overwritten.
SetKey(f, k, v) == [x \in DOMAIN f \cup {k} |-> IF x = k THEN v ELSE f[x]]

\* d.pop(k) on a mapping that has the key: the mapping without it.
DropKey(f, k) == [x \in DOMAIN f \ {k} |-> f[x]]

---------------------------------------------------------------------------
(* How a call ends. *)

NoErr == [kind |-> "", handled |-> FALSE]
Err(kind) == [kind |-> kind, handled |-> FALSE]

LogRec(level, msg) == [level |-> level, msg |-> msg]

\* A call's outcome: the value returned or the exception raised, and the log
\* records emitted on the way.
Ret(val, lg) == [ok |-> TRUE, val |-> val, err |-> NoErr, logs |-> lg]
Raise(err, lg) == [ok |-> FALSE, val |-> Null, err |-> err, logs |-> lg]

ErrorLines(lg) == Len(SelectSeq(lg, LAMBDA l : l.level = "error"))
WarningLines(lg) == Len(SelectSeq(lg, LAMBDA l : l.level = "warning"))

---------------------------------------------------------------------------
(* FromJSON, the base class of every record (api.py).                      *)

\* The except clause of from_json: an exception not yet marked is logged and
\* marked, every exception is raised again.
LogOnce(cls, r) ==
    IF r.ok \/ r.err.handled
    THEN r
    ELSE [r EXCEPT !.logs = Append(@, LogRec("error", "failed to create " \o cls \o " from JSON")),
                   !.err.handled = TRUE]

\* FromJSON._from_json, the generic pass over the declared fields: a missing
\* required field fails, a missing optional field takes its default None.
FromJSON__from_json(cls, required, optional, data) ==
    IF required \subseteq DOMAIN data
    THEN Ret(Inst(cls, [k \in required \cup optional |->
                           IF k \in DOMAIN data THEN data[k] ELSE Null]), <<>>)
    ELSE Raise(Err("TypeError"), <<>>)

\* data.copy() of a value that is no mapping, inside from_json's try.
NotMapping == Raise(Err("AttributeError"), <<>>)

Min(S) == CHOOSE x \in S : \A y \in S : x <= y

\* FromJSON.list_from_json, given the outcomes rs of the class's from_json on
\* the entries: the entries are decoded in order, the first that fails fails
\* the list.
Collect(rs) ==
    LET bad == {i \in 1..Len(rs) : ~rs[i].ok}
    IN  IF bad = {}
        THEN Ret(List([i \in 1..Len(rs) |-> rs[i].val]), <<>>)
        ELSE rs[Min(bad)]

\* data[k], None standing for what a missing key has.
Item(data, k) == IF k \in DOMAIN data THEN data[k] ELSE Null

\* The first statement of a _from_json is reached with the copy of the data.
Start(data) == Ret(data, <<>>)

\* DecodeKey with the nested failure swallowed: the field is left None.
DecodeKey_swallow(r, k, rk) ==
    IF ~r.ok THEN r
    ELSE IF k \notin DOMAIN r.val THEN Raise(Err("KeyError"), <<>>)
    ELSE Ret(SetKey(r.val, k, rk.val), <<>>)

\* data[k] = X.from_json(data[k]) inside a _from_json.  r is the outcome of
\* the statements before it (its value the working copy), rk the outcome of
\* the from_json on the value under k.  The statement is not reached when an
\* earlier one raised; a missing key raises KeyError before from_json is
\* called; a failing from_json ends the _from_json with its exception.
DecodeKey(r, k, rk) ==
    IF ~r.ok THEN r
    ELSE IF k \notin DOMAIN r.val THEN Raise(Err("KeyError"), <<>>)
    ELSE IF rk.ok THEN Ret(SetKey(r.val, k, rk.val), <<>>) ELSE rk

\* return super()._from_json(data), reached when no statement before it raised.
super__from_json(cls, required, optional, r) ==
    IF r.ok THEN FromJSON__from_json(cls, required, optional, r.val) ELSE r

\* The records of api.py (Info, Device, Dimmer, Blind, LED, WiFi, Config,
\* BlindConfig, PIRConfig, TempComp): their field lists are not in api_v2.py,
\* one required field stands for them.
External_Required == {"id"}
External__from_json(data) == FromJSON__from_json("External", External_Required, {}, data)
External_from_json(v) ==
    LogOnce("External", IF IsObj(v) THEN External__from_json(v.obj) ELSE NotMapping)

\* {Dimmer,Blind,BlindConfig}.list_from_json.  A null entry is an absent slot.
External_list_from_json(v) ==
    IF ~IsList(v) THEN Raise(Err("TypeError"), <<>>)
    ELSE Collect([i \in 1..Len(v.list) |->
                     IF IsNull(v.list[i]) THEN Ret(Null, <<>>) ELSE External_from_json(v.list[i])])

---------------------------------------------------------------------------
(* ThermostatV2 *)

ThermostatV2_Required ==
    {"active", "enabled", "target_temp", "mode", "temp", "min_target_temp", "max_target_temp"}
ThermostatV2__from_json(data) ==
    FromJSON__from_json("ThermostatV2", ThermostatV2_Required, {}, data)
ThermostatV2_from_json(v) ==
    LogOnce("ThermostatV2", IF IsObj(v) THEN ThermostatV2__from_json(v.obj) ELSE NotMapping)

---------------------------------------------------------------------------
(* DimmerConfigV2 *)

Light_Dimmer_Required == {"type", "use_last_value"}
Light_Dimmer__from_json(data) ==
    FromJSON__from_json("DimmerConfigV2.Light.Dimmer", Light_Dimmer_Required, {}, data)
Light_Dimmer_from_json(v) ==
    LogOnce("DimmerConfigV2.Light.Dimmer",
            IF IsObj(v) THEN Light_Dimmer__from_json(v.obj) ELSE NotMapping)

Light_Required == {"dimmable", "dimmer"}
Light__from_json(data) ==
    super__from_json("DimmerConfigV2.Light", Light_Required, {},
                     DecodeKey(Start(data), "dimmer",
                               Light_Dimmer_from_json(Item(data, "dimmer"))))
Light_from_json(v) ==
    LogOnce("DimmerConfigV2.Light", IF IsObj(v) THEN Light__from_json(v.obj) ELSE NotMapping)

DimmerConfigV2_Required == {"name", "feedback"}
DimmerConfigV2_Optional == {"light"}
DimmerConfigV2__from_json(data) ==
    super__from_json("DimmerConfigV2", DimmerConfigV2_Required, DimmerConfigV2_Optional,
                     DecodeKey(Start(data), "light", Light_from_json(Item(data, "light"))))
DimmerConfigV2_from_json(v) ==
    LogOnce("DimmerConfigV2", IF IsObj(v) THEN DimmerConfigV2__from_json(v.obj) ELSE NotMapping)
DimmerConfigV2_list_from_json(v) ==
    IF ~IsList(v) THEN Raise(Err("TypeError"), <<>>)
    ELSE Collect([i \in 1..Len(v.list) |->
                     IF IsNull(v.list[i]) THEN Ret(Null, <<>>)
                     ELSE DimmerConfigV2_from_json(v.list[i])])

\* The dataclass constructor DimmerConfigV2(name, feedback, light=None).
DimmerConfigV2_new(name, feedback, light) ==
    Inst("DimmerConfigV2", [name |-> name, feedback |-> feedback, light |-> light])

\* bool(v), Python's truth value of a JSON value.
Truthy(v) ==
    IF DOMAIN v = {"null"} THEN FALSE
    ELSE IF DOMAIN v = {"bool"} THEN v.bool
    ELSE IF DOMAIN v = {"num"} THEN v.num # 0
    ELSE IF DOMAIN v = {"str"} THEN v.str # ""
    ELSE IF DOMAIN v = {"list"} THEN Len(v.list) > 0
    ELSE IF DOMAIN v = {"obj"} THEN DOMAIN v.obj # {}
    ELSE TRUE

\* available that asks for the light configuration as well.
available_with_light(self) == Truthy(self.fields.name) /\ ~IsNull(self.fields.light)

\* DimmerConfigV2.available
available(self) == Truthy(self.fields.name)

---------------------------------------------------------------------------
(* SystemConfigV2 *)

Time_Required == {"hour", "minute"}
Time__from_json(data) == FromJSON__from_json("SystemConfigV2.Time", Time_Required, {}, data)
Time_from_json(v) ==
    LogOnce("SystemConfigV2.Time", IF IsObj(v) THEN Time__from_json(v.obj) ELSE NotMapping)

SunOffset_Required == {"day", "twilight", "night"}
SunOffset__from_json(data) ==
    FromJSON__from_json("SystemConfigV2.DynLight.SunOffset", SunOffset_Required, {}, data)
SunOffset_from_json(v) ==
    LogOnce("SystemConfigV2.DynLight.SunOffset",
            IF IsObj(v) THEN SunOffset__from_json(v.obj) ELSE NotMapping)

DynLight_Required == {"enable", "phases", "source", "sun_offset"}
DynLight__from_json(data) ==
    super__from_json("SystemConfigV2.DynLight", DynLight_Required, {},
                     DecodeKey(Start(data), "sun_offset",
                               SunOffset_from_json(Item(data, "sun_offset"))))
DynLight_from_json(v) ==
    LogOnce("SystemConfigV2.DynLight", IF IsObj(v) THEN DynLight__from_json(v.obj) ELSE NotMapping)

SystemConfigV2_Required ==
    {"allow_reset", "allow_wps", "allow_reboot", "allow_remote_reboot", "protected_status",
     "id", "lat", "long", "wifi_ps", "tzid", "origin", "upgrade_blink", "reboot_blink",
     "dingz_name", "room_name", "temp_offset", "time", "system_status", "fet_offset",
     "cpu_offset"}
SystemConfigV2_Optional ==
    {"token", "mdns_search_period", "groups", "temp_comp", "dyn_light", "sunrise", "sunset"}

\* try: raw_temp_comp = data.pop("temp_comp") / except KeyError: pass /
\* else: data["temp_comp"] = TempComp.from_json(raw_temp_comp)
\* r is the outcome of the statements before it.
PopTempComp(r) ==
    IF ~r.ok THEN r
    ELSE IF "temp_comp" \notin DOMAIN r.val THEN r
    ELSE LET t == External_from_json(r.val["temp_comp"])
         IN  IF t.ok THEN Ret(SetKey(DropKey(r.val, "temp_comp"), "temp_comp", t.val), <<>>)
             ELSE t

\* The keys decoded are distinct, so the value under each is still the one
\* the data came with when its statement is reached.
SystemConfigV2__from_json(data) ==
    super__from_json(
        "SystemConfigV2", SystemConfigV2_Required, SystemConfigV2_Optional,
        PopTempComp(
            DecodeKey(
                DecodeKey(
                    DecodeKey(Start(data), "sunrise", Time_from_json(Item(data, "sunrise"))),
                    "sunset", Time_from_json(Item(data, "sunset"))),
                "dyn_light", DynLight_from_json(Item(data, "dyn_light")))))
SystemConfigV2_from_json(v) ==
    LogOnce("SystemConfigV2", IF IsObj(v) THEN SystemConfigV2__from_json(v.obj) ELSE NotMapping)

---------------------------------------------------------------------------
(* SensorsV2 *)

\* An outcome together with the caller's raw value as the call leaves it: the
\* copy a from_json works on is shallow, the lists and mappings nested in it
\* are the caller's own.
WithRaw(r, raw) == [ok |-> r.ok, val |-> r.val, err |-> r.err, logs |-> r.logs, raw |-> raw]

PIR_Required == {"enabled", "motion", "mode", "light_off_timer", "suspend_timer"}
PIR__from_json(data) == FromJSON__from_json("SensorsV2.PIR", PIR_Required, {}, data)

\* SensorsV2.PIR.from_json: None for None.
PIR_from_json(v) ==
    IF IsNull(v)
    THEN Ret(Null, <<>>)
    ELSE LogOnce("SensorsV2.PIR", IF IsObj(v) THEN PIR__from_json(v.obj) ELSE NotMapping)
PIR_list_from_json(v) ==
    IF ~IsList(v) THEN Raise(Err("TypeError"), <<>>)
    ELSE Collect([i \in 1..Len(v.list) |-> PIR_from_json(v.list[i])])

SensorsV2_Required ==
    {"brightness", "light_state", "light_state_lpf", "cpu_temperature", "puck_temperature",
     "fet_temperature", "pirs", "input_state", "power_outputs"}
SensorsV2_Optional ==
    {"room_temperature", "uncompensated_temperature", "temp_offset", "light_off_timer",
     "suspend_timer"}

\* for i, out in enumerate(power_outputs): power_outputs[i] = out["value"]
\* from entry i on: the list as the loop leaves it, and the exception that
\* ended it ("" when it ran to the end).
RECURSIVE Flatten(_, _)
Flatten(list, i) ==
    IF i > Len(list) THEN [list |-> list, kind |-> ""]
    ELSE IF Has(list[i], "value") THEN Flatten([list EXCEPT ![i] = list[i].obj["value"]], i + 1)
    ELSE [list |-> list, kind |-> IF IsObj(list[i]) THEN "KeyError" ELSE "TypeError"]

\* The power_outputs block of SensorsV2._from_json on the value under the
\* key: the value as the block leaves it, and the exception it raised.
HandlePowerOutputs(po) ==
    IF ~Truthy(po) THEN [po |-> po, kind |-> ""]
    ELSE IF IsList(po) THEN LET f == Flatten(po.list, 1) IN [po |-> List(f.list), kind |-> f.kind]
    ELSE [po |-> po, kind |-> "TypeError"]

SensorsV2__from_json(data) ==
    LET r1 == DecodeKey(Start(data), "pirs", PIR_list_from_json(Item(data, "pirs")))
    IN  IF ~r1.ok THEN WithRaw(r1, Obj(data))
        ELSE IF "power_outputs" \notin DOMAIN data
        THEN WithRaw(Raise(Err("KeyError"), <<>>), Obj(data))
        ELSE LET h == HandlePowerOutputs(data["power_outputs"])
                 after == Obj(SetKey(data, "power_outputs", h.po))
             IN  IF h.kind # ""
                 THEN WithRaw(Raise(Err(h.kind),
                                    <<LogRec("error", "failed to handle power outputs")>>), after)
                 ELSE WithRaw(FromJSON__from_json("SensorsV2", SensorsV2_Required,
                                                  SensorsV2_Optional,
                                                  SetKey(r1.val, "power_outputs", h.po)), after)

SensorsV2_from_json(v) ==
    LogOnce("SensorsV2",
            IF IsObj(v) THEN SensorsV2__from_json(v.obj) ELSE WithRaw(NotMapping, v))

---------------------------------------------------------------------------
(* StateV2 *)

StateV2_Required == {"dimmers", "blinds", "led", "sensors", "thermostat", "wifi", "config"}
StateV2_Optional == {"time"}

\* The statements of StateV2._from_json before the one for sensors.
StateV2_before_sensors(data) ==
    DecodeKey(
        DecodeKey(
            DecodeKey(Start(data), "dimmers", External_list_from_json(Item(data, "dimmers"))),
            "blinds", External_list_from_json(Item(data, "blinds"))),
        "led", External_from_json(Item(data, "led")))

\* The mapping under sensors is the caller's own: what SensorsV2.from_json
\* leaves of it is what the caller's data holds afterwards.
StateV2__from_json(data) ==
    LET rs == SensorsV2_from_json(Item(data, "sensors"))
    IN  WithRaw(
            super__from_json(
                "StateV2", StateV2_Required, StateV2_Optional,
                DecodeKey(
                    DecodeKey(
                        DecodeKey(
                            DecodeKey(StateV2_before_sensors(data), "sensors", rs),
                            "thermostat", ThermostatV2_from_json(Item(data, "thermostat"))),
                        "wifi", External_from_json(Item(data, "wifi"))),
                    "config", External_from_json(Item(data, "config")))),
            IF StateV2_before_sensors(data).ok /\ "sensors" \in DOMAIN data
            THEN Obj(SetKey(data, "sensors", rs.raw))
            ELSE Obj(data))

StateV2_from_json(v) ==
    LogOnce("StateV2", IF IsObj(v) THEN StateV2__from_json(v.obj) ELSE WithRaw(NotMapping, v))

---------------------------------------------------------------------------
(* DingzSessionV2: the transport. *)

\* A Python int, and str() of a keyword argument's value.
PyInt(n) == [int |-> n]
Format(value) == IF DOMAIN value = {"int"} THEN ToString(value.int) ELSE value.str

Param(key, value) == [key |-> key, value |-> value]

\* "&".join(f"{key}={value}" for key, value in data.items())
RECURSIVE JoinParams(_)
JoinParams(data) ==
    IF Len(data) = 0 THEN ""
    ELSE IF Len(data) = 1 THEN data[1].key \o "=" \o Format(data[1].value)
    ELSE data[1].key \o "=" \o Format(data[1].value) \o "&" \o JoinParams(Tail(data))

\* __post_request testing "data is not None" in place of "data".
__post_request_not_none(h, path, data) ==
    [method |-> "POST",
     url |-> h \o "/api/v1" \o path,
     has_body |-> TRUE,
     body |-> JoinParams(data),
     headers |-> {<<"Content-Type", "application/x-www-form-urlencoded">>}]

\* DingzSessionV2.__post_request: the request it hands to session.post.
\* data is the keyword arguments in order.  body is None without has_body.
__post_request(h, path, data) ==
    [method |-> "POST",
     url |-> h \o "/api/v1" \o path,
     has_body |-> Len(data) > 0,
     body |-> IF Len(data) > 0 THEN JoinParams(data) ELSE "",
     headers |-> IF Len(data) > 0
                 THEN {<<"Content-Type", "application/x-www-form-urlencoded">>}
                 ELSE {}]

\* The request of DingzSessionV2._get.
get_request(h, path) ==
    [method |-> "GET", url |-> h \o "/api/v1" \o path, has_body |-> FALSE, body |-> "",
     headers |-> {}]

\* resp.json(): the parsed body, whatever the status.
resp_json(rsp) == IF rsp.json THEN Ret(rsp.body, <<>>) ELSE Raise(Err("ContentTypeError"), <<>>)

\* resp.raise_for_status(): raises for a status of 400 and above.
raise_for_status(rsp) ==
    IF rsp.status >= 400 THEN Raise(Err("ClientResponseError"), <<>>) ELSE Ret(Null, <<>>)

\* What an operation did: the requests it issued and its outcome.
Done(reqs, r) == [sent |-> reqs, ok |-> r.ok, val |-> r.val, err |-> r.err, logs |-> r.logs]

_get(h, path, rsp) == Done(<<get_request(h, path)>>, resp_json(rsp))
_post_json(h, path, data, rsp) == Done(<<__post_request(h, path, data)>>, resp_json(rsp))
_post_plain(h, path, data, rsp) == Done(<<__post_request(h, path, data)>>, raise_for_status(rsp))

---------------------------------------------------------------------------
(* DingzSessionV2: the write operations. *)

\* round that takes a tie up.
round_half_up(t) == (t + 5) \div 10

\* round(x) of a float counted in tenths: to the nearest integer, a tie to
\* the even one.
round(t) ==
    LET q == t \div 10
        r == t % 10
    IN  IF r < 5 THEN q
        ELSE IF r > 5 THEN q + 1
        ELSE IF q % 2 = 0 THEN q ELSE q + 1

\* led_color with the hue not wrapped.
led_color_nowrap(color) ==
    IF IsNull(color)
    THEN <<>>
    ELSE <<Param("color", Str(ToString(round(color.hsv[1])) \o ";" \o ToString(round(color.hsv[2]))
                              \o ";" \o ToString(round(color.hsv[3])))),
           Param("mode", Str("hsv"))>>

\* The color and mode arguments of set_led.
led_color(color) ==
    IF IsNull(color)
    THEN <<>>
    ELSE LET h == round(color.hsv[1])
             s == round(color.hsv[2])
             v == round(color.hsv[3])
         IN  <<Param("color", Str(ToString(h % 360) \o ";" \o ToString(s) \o ";" \o ToString(v))),
               Param("mode", Str("hsv"))>>

\* The action argument of set_led.
led_action(state) ==
    IF IsNull(state) THEN "toggle" ELSE IF state.bool THEN "on" ELSE "off"

set_led(h, state, color, rsp) ==
    LET d == _post_json(h, "/led/set",
                        <<Param("action", Str(led_action(state)))>> \o led_color(color), rsp)
    IN  IF d.ok THEN Done(d.sent, Ret(Null, <<>>)) ELSE d

set_dimmer(h, index, state, value, rsp) ==
    _post_plain(h, "/dimmer/" \o ToString(index) \o "/" \o (IF state THEN "on" ELSE "off"),
                IF IsNull(value) THEN <<>> ELSE <<Param("value", PyInt(round(value.num)))>>, rsp)

set_blind_position(h, index, position, rsp) ==
    _post_plain(h, "/shade/" \o ToString(index), <<Param("blind", PyInt(round(position)))>>, rsp)

blind_down(h, index, rsp) == _post_plain(h, "/shade/" \o ToString(index) \o "/down", <<>>, rsp)
blind_up(h, index, rsp) == _post_plain(h, "/shade/" \o ToString(index) \o "/up", <<>>, rsp)
blind_stop(h, index, rsp) == _post_plain(h, "/shade/" \o ToString(index) \o "/stop", <<>>, rsp)

---------------------------------------------------------------------------
(* DingzSessionV2: the read operations. *)

info(h, rsp) ==
    LET g == _get(h, "/info", rsp)
    IN  IF g.ok THEN Done(g.sent, External_from_json(g.val)) ELSE g

\* The warning of device(): len(raw) > 1.
device_warning(raw) ==
    IF Len(raw.entries) > 1 THEN <<LogRec("warning", "received more than one device")>> ELSE <<>>

\* device taking the last entry.
device_last(h, rsp) ==
    LET g == _get(h, "/device", rsp)
    IN  IF ~g.ok THEN g
        ELSE IF Len(g.val.entries) = 0
        THEN Done(g.sent, Raise(Err("RuntimeError"),
                                device_warning(g.val)
                                \o <<LogRec("error", "empty device response")>>))
        ELSE LET r == External_from_json(g.val.entries[Len(g.val.entries)].value)
             IN  Done(g.sent, [r EXCEPT !.logs = device_warning(g.val) \o @])

\* The /device mapping is kept in its order: raw.entries is the sequence of
\* its items.  The StopIteration of next() on no entry is logged and raised
\* again; raised out of a coroutine it reaches the caller as a RuntimeError.
device(h, rsp) ==
    LET g == _get(h, "/device", rsp)
    IN  IF ~g.ok THEN g
        ELSE IF Len(g.val.entries) = 0
        THEN Done(g.sent, Raise(Err("RuntimeError"),
                                device_warning(g.val)
                                \o <<LogRec("error", "empty device response")>>))
        ELSE LET r == External_from_json(g.val.entries[1].value)
             IN  Done(g.sent, [r EXCEPT !.logs = device_warning(g.val) \o @])

state(h, rsp) ==
    LET g == _get(h, "/state", rsp)
    IN  IF g.ok THEN Done(g.sent, StateV2_from_json(g.val)) ELSE g

system_config(h, rsp) ==
    LET g == _get(h, "/system_config", rsp)
    IN  IF g.ok THEN Done(g.sent, SystemConfigV2_from_json(g.val)) ELSE g

\* raw[key] of a parsed response, r the outcome of the list decode of it.
ListField(raw, key, r) ==
    IF ~IsObj(raw) THEN Raise(Err("TypeError"), <<>>)
    ELSE IF key \notin Keys(raw) THEN Raise(Err("KeyError"), <<>>)
    ELSE r

\* raw[key] for the list decode, None standing for what a missing key has.
Field(raw, key) == IF Has(raw, key) THEN raw.obj[key] ELSE Null

dimmer_config(h, rsp) ==
    LET g == _get(h, "/dimmer_config", rsp)
    IN  IF g.ok
        THEN Done(g.sent, ListField(g.val, "dimmers",
                                    DimmerConfigV2_list_from_json(Field(g.val, "dimmers"))))
        ELSE g

blind_config(h, rsp) ==
    LET g == _get(h, "/blind_config", rsp)
    IN  IF g.ok
        THEN Done(g.sent, ListField(g.val, "blinds",
                                    External_list_from_json(Field(g.val, "blinds"))))
        ELSE g

pir_config(h, rsp) ==
    LET g == _get(h, "/pir_config", rsp)
    IN  IF g.ok THEN Done(g.sent, External_from_json(g.val)) ELSE g

---------------------------------------------------------------------------
(* The inputs: what callers pass and what the device answers. *)

Hosts == {"http://dingz.local", "http://192.168.1.20"}
Indices == 0..MaxIndex
Statuses == {200, 500}

\* Floats in tenths.
Hues == {-5, 0, 3594, 3595, 3596, 4000}
Saturations == {0, 5, 506, 1000}
Values == {15, 25, 1004}
Colors == {Null} \cup {[hsv |-> <<h, s, v>>] : h \in Hues, s \in Saturations, v \in Values}
LedStates == {Null, Bool(TRUE), Bool(FALSE)}
DimmerValues == {Null, Num(0), Num(4), Num(505), Num(1000)}
Positions == {0, 5, 15, 25, 254, 256, 565, 575, 585, 1000}

Seqs(S) == UNION {[1..n -> S] : n \in 0..MaxEntries}

\* A field left out of a mapping.
Missing == [missing |-> TRUE]

\* The mapping good with the fields of c put over it.
Patch(good, c) ==
    [k \in {x \in DOMAIN good \cup DOMAIN c : x \in DOMAIN c => c[x] # Missing} |->
        IF k \in DOMAIN c THEN c[k] ELSE good[k]]

\* The mappings that differ from good in at most MaxFaults fields, each taken
\* from the alternatives alts gives for it.
Variants(good, alts) ==
    {Patch(good, c) :
        c \in UNION {{f \in [ks -> UNION {alts[k] : k \in ks}] : \A k \in ks : f[k] \in alts[k]} :
                     ks \in {x \in SUBSET DOMAIN alts : Cardinality(x) <= MaxFaults}}}

GoodExternal == Obj([id |-> Num(1)])
OtherExternal == Obj([id |-> Num(2)])
BadExternal == Obj(EmptyMap)
ExternalRaws == {GoodExternal, OtherExternal, BadExternal, Null}

GoodThermostat ==
    Obj([active |-> Bool(FALSE), enabled |-> Bool(TRUE), target_temp |-> Num(21),
         mode |-> Str("heating"), temp |-> Num(22), min_target_temp |-> Num(17),
         max_target_temp |-> Num(31)])
BadThermostat == Obj(DropKey(GoodThermostat.obj, "mode"))

GoodPIR ==
    Obj([enabled |-> Bool(TRUE), motion |-> Bool(FALSE), mode |-> Str("auto"),
         light_off_timer |-> Num(0), suspend_timer |-> Num(0)])
BadPIR == Obj(DropKey(GoodPIR.obj, "motion"))

GoodSensors ==
    [brightness |-> Num(120), light_state |-> Str("day"), light_state_lpf |-> Str("day"),
     cpu_temperature |-> Num(40), puck_temperature |-> Null, fet_temperature |-> Null,
     pirs |-> List(<<GoodPIR, Null>>), input_state |-> Null,
     power_outputs |-> List(<<Obj([value |-> Num(12)])>>)]

SensorsAlts ==
    [cpu_temperature |-> {Missing},
     brightness |-> {Missing, Null},
     room_temperature |-> {Num(21)},
     pirs |-> {Missing, Null, List(<<Null, GoodPIR>>)}
              \cup {List(x) : x \in Seqs({GoodPIR, BadPIR})},
     power_outputs |-> {Missing, Null, Num(5), List(<<Obj(EmptyMap)>>)}
                       \cup {List(x) : x \in Seqs({Obj([value |-> Num(12)]), Num(7)})}]

SensorsRaws == {Obj(f) : f \in Variants(GoodSensors, SensorsAlts)}

GoodState ==
    [dimmers |-> List(<<GoodExternal>>), blinds |-> List(<<>>), led |-> GoodExternal,
     sensors |-> Obj(GoodSensors), thermostat |-> GoodThermostat, wifi |-> GoodExternal,
     config |-> GoodExternal]

StateAlts ==
    [dimmers |-> {Missing, List(<<GoodExternal, Null>>), List(<<GoodExternal, BadExternal>>)},
     blinds |-> {Missing, List(<<BadExternal>>)},
     led |-> {Missing, BadExternal},
     thermostat |-> {Missing, BadThermostat},
     wifi |-> {Missing, BadExternal},
     config |-> {Missing, BadExternal},
     time |-> {Str("2021-03-04 05:06:07")}]

\* The faults of a state mapping are in its own fields or in its sensors.
StateRaws ==
    {Obj(f) : f \in Variants(GoodState, StateAlts)}
    \cup {Obj(SetKey(GoodState, "sensors", x)) : x \in SensorsRaws \cup {Null}}
    \cup {Obj(DropKey(GoodState, "sensors"))}

GoodTime == Obj([hour |-> Num(6), minute |-> Num(30)])
BadTime == Obj([hour |-> Num(6)])
GoodDynLight ==
    Obj([enable |-> Bool(TRUE), phases |-> Num(2), source |-> Str("sun"),
         sun_offset |-> Obj([day |-> Num(0), twilight |-> Num(0), night |-> Num(0)])])
BadDynLight == Obj(SetKey(GoodDynLight.obj, "sun_offset", Obj([day |-> Num(0)])))

GoodSystemConfig ==
    [allow_reset |-> Bool(TRUE), allow_wps |-> Bool(TRUE), allow_reboot |-> Bool(TRUE),
     allow_remote_reboot |-> Bool(TRUE), protected_status |-> Bool(FALSE), id |-> Bool(TRUE),
     lat |-> Str("47.0"), long |-> Str("8.0"), wifi_ps |-> Bool(FALSE), tzid |-> Num(1),
     origin |-> Bool(FALSE), upgrade_blink |-> Bool(TRUE), reboot_blink |-> Bool(TRUE),
     dingz_name |-> Bool(TRUE), room_name |-> Str("Office"), temp_offset |-> Num(0),
     time |-> Str("2021-03-04 05:06:07"), system_status |-> Str("OK"), fet_offset |-> Num(0),
     cpu_offset |-> Num(0),
     dyn_light |-> GoodDynLight, sunrise |-> GoodTime, sunset |-> GoodTime]

SystemConfigAlts ==
    [tzid |-> {Missing},
     token |-> {Str("secret")},
     mdns_search_period |-> {Num(60)},
     groups |-> {List(<<Bool(TRUE)>>)},
     temp_comp |-> {GoodExternal, BadExternal, Null},
     dyn_light |-> {Missing, Null, BadDynLight},
     sunrise |-> {Missing, Null, BadTime},
     sunset |-> {Missing, Null, BadTime}]

SystemConfigRaws == {Obj(f) : f \in Variants(GoodSystemConfig, SystemConfigAlts)}

GoodFeedback == Obj([color |-> Str("#ff0000"), brightness |-> Num(50)])
GoodLight ==
    Obj([dimmable |-> Bool(TRUE),
         dimmer |-> Obj([type |-> Str("linear"), use_last_value |-> Bool(TRUE)])])
BadLight == Obj([dimmable |-> Bool(TRUE), dimmer |-> Obj([type |-> Str("linear")])])
GoodDimmerConfig ==
    Obj([name |-> Str("Desk"), feedback |-> GoodFeedback, light |-> GoodLight])
DimmerConfigEntries ==
    {Null,
     GoodDimmerConfig,
     Obj(SetKey(GoodDimmerConfig.obj, "name", Str(""))),
     Obj(SetKey(GoodDimmerConfig.obj, "name", Null)),
     Obj(DropKey(GoodDimmerConfig.obj, "feedback")),
     Obj(DropKey(GoodDimmerConfig.obj, "light")),
     Obj(SetKey(GoodDimmerConfig.obj, "light", Null)),
     Obj(SetKey(GoodDimmerConfig.obj, "light", BadLight))}
DimmerConfigRaws ==
    {Obj(EmptyMap)} \cup {Obj([dimmers |-> List(x)]) : x \in Seqs(DimmerConfigEntries)}

BlindConfigRaws ==
    {Obj(EmptyMap)} \cup {Obj([blinds |-> List(x)]) : x \in Seqs({GoodExternal, BadExternal, Null})}

DeviceRaws ==
    {[entries |-> [i \in 1..Len(x) |-> [key |-> "dev" \o ToString(i), value |-> x[i]]]] :
        x \in Seqs({GoodExternal, OtherExternal, BadExternal})}

\* The device's answers: a status, and a body that is JSON or is not.
Responses(bodies) ==
    {[status |-> st, json |-> TRUE, body |-> b] : st \in Statuses, b \in bodies}
    \cup {[status |-> st, json |-> FALSE, body |-> Null] : st \in Statuses}

NoResp == [status |-> 0, json |-> FALSE, body |-> Null]
NoHeld == [cls |-> "", raw0 |-> Null, raw |-> Null]
NoResult == [ok |-> TRUE, val |-> Null, err |-> NoErr]

---------------------------------------------------------------------------
(* The state machine: one action per operation. *)

Init ==
    /\ host \in Hosts
    /\ op = "idle"
    /\ args = Null
    /\ resp = NoResp
    /\ sent = <<>>
    /\ logs = <<>>
    /\ result = NoResult
    /\ held = NoHeld
    /\ outcomes = <<>>

\* No call is under way: the model follows one call at a time, from the call
\* to the caller taking its outcome.
Idle == op = "idle"

\* A client operation was called with arguments a, the device answered rsp,
\* and the operation did d.
Called(name, a, rsp, d) ==
    /\ op' = name
    /\ args' = a
    /\ resp' = rsp
    /\ sent' = d.sent
    /\ logs' = d.logs
    /\ result' = [ok |-> d.ok, val |-> d.val, err |-> d.err]
    /\ held' = NoHeld
    /\ outcomes' = <<>>
    /\ UNCHANGED host

WriteResponses == Responses({Obj(EmptyMap)})

Info ==
    /\ Idle
    /\ \E rsp \in Responses(ExternalRaws) : Called("info", Null, rsp, info(host, rsp))

Device ==
    /\ Idle
    /\ \E rsp \in Responses(DeviceRaws) : Called("device", Null, rsp, device(host, rsp))

State ==
    /\ Idle
    /\ \E rsp \in Responses(StateRaws) : Called("state", Null, rsp, state(host, rsp))

SystemConfig ==
    /\ Idle
    /\ \E rsp \in Responses(SystemConfigRaws) :
           Called("system_config", Null, rsp, system_config(host, rsp))

DimmerConfig ==
    /\ Idle
    /\ \E rsp \in Responses(DimmerConfigRaws) :
           Called("dimmer_config", Null, rsp, dimmer_config(host, rsp))

BlindConfig ==
    /\ Idle
    /\ \E rsp \in Responses(BlindConfigRaws) :
           Called("blind_config", Null, rsp, blind_config(host, rsp))

PirConfig ==
    /\ Idle
    /\ \E rsp \in Responses(ExternalRaws) : Called("pir_config", Null, rsp, pir_config(host, rsp))


SetLed ==
    /\ Idle
    /\ \E st \in LedStates, color \in Colors, rsp \in WriteResponses :
           Called("set_led", [state |-> st, color |-> color], rsp, set_led(host, st, color, rsp))

SetDimmer ==
    /\ Idle
    /\ \E index \in Indices, st \in BOOLEAN, value \in DimmerValues, rsp \in WriteResponses :
           Called("set_dimmer", [index |-> index, state |-> st, value |-> value], rsp,
                  set_dimmer(host, index, st, value, rsp))

SetBlindPosition ==
    /\ Idle
    /\ \E index \in Indices, position \in Positions, rsp \in WriteResponses :
           Called("set_blind_position", [index |-> index, position |-> position], rsp,
                  set_blind_position(host, index, position, rsp))

BlindDown ==
    /\ Idle
    /\ \E index \in Indices, rsp \in WriteResponses :
           Called("blind_down", [index |-> index], rsp, blind_down(host, index, rsp))

BlindUp ==
    /\ Idle
    /\ \E index \in Indices, rsp \in WriteResponses :
           Called("blind_up", [index |-> index], rsp, blind_up(host, index, rsp))

BlindStop ==
    /\ Idle
    /\ \E index \in Indices, rsp \in WriteResponses :
           Called("blind_stop", [index |-> index], rsp, blind_stop(host, index, rsp))

\* A caller of the decoders gets hold of a raw mapping.
Hold ==
    /\ Idle
    /\ \E cls \in {"StateV2", "SensorsV2"} :
       \E raw \in IF cls = "StateV2" THEN StateRaws ELSE SensorsRaws :
           held' = [cls |-> cls, raw0 |-> raw, raw |-> raw]
    /\ op' = "hold"
    /\ args' = Null
    /\ resp' = NoResp
    /\ sent' = <<>>
    /\ logs' = <<>>
    /\ result' = NoResult
    /\ outcomes' = <<>>
    /\ UNCHANGED host

\* The caller calls from_json on the mapping it holds.
Decode ==
    /\ held.cls # ""
    /\ Len(outcomes) < MaxDecodes
    /\ LET r == IF held.cls = "StateV2" THEN StateV2_from_json(held.raw)
                ELSE SensorsV2_from_json(held.raw)
       IN  /\ op' = "from_json"
           /\ args' = held.raw
           /\ logs' = r.logs
           /\ result' = [ok |-> r.ok, val |-> r.val, err |-> r.err]
           /\ held' = [held EXCEPT !.raw = r.raw]
           /\ outcomes' = Append(outcomes, [ok |-> r.ok, val |-> r.val, err |-> r.err])
    /\ resp' = NoResp
    /\ sent' = <<>>
    /\ UNCHANGED host

\* A caller constructs a DimmerConfigV2.
NewDimmerConfig ==
    /\ Idle
    /\ \E name \in {Str(""), Str("Desk")}, light \in {Null, Light_from_json(GoodLight).val} :
           /\ args' = [name |-> name, light |-> light]
           /\ result' = [ok |-> TRUE, val |-> DimmerConfigV2_new(name, GoodFeedback, light),
                         err |-> NoErr]
    /\ op' = "DimmerConfigV2"
    /\ resp' = NoResp
    /\ sent' = <<>>
    /\ logs' = <<>>
    /\ held' = NoHeld
    /\ outcomes' = <<>>
    /\ UNCHANGED host

\* The DimmerConfigV2 instances the last operation returned.
Returned ==
    IF ~result.ok THEN {}
    ELSE IF op = "DimmerConfigV2" THEN {result.val}
    ELSE IF op = "dimmer_config"
    THEN {result.val.list[i] : i \in {j \in 1..Len(result.val.list) : ~IsNull(result.val.list[j])}}
    ELSE {}

\* A caller reads the available property of an instance it was returned.
Available ==
    /\ \E self \in Returned :
           /\ args' = self
           /\ result' = [ok |-> TRUE, val |-> Bool(available(self)), err |-> NoErr]
    /\ op' = "available"
    /\ resp' = NoResp
    /\ sent' = <<>>
    /\ logs' = <<>>
    /\ held' = NoHeld
    /\ outcomes' = <<>>
    /\ UNCHANGED host

\* The caller takes the outcome; nothing of the call is kept.
Return ==
    /\ ~Idle
    /\ op' = "idle"
    /\ args' = Null
    /\ resp' = NoResp
    /\ sent' = <<>>
    /\ logs' = <<>>
    /\ result' = NoResult
    /\ held' = NoHeld
    /\ outcomes' = <<>>
    /\ UNCHANGED host

Next ==
    \/ Info
    \/ Device
    \/ State
    \/ SystemConfig
    \/ DimmerConfig
    \/ BlindConfig
    \/ PirConfig
    \/ SetLed
    \/ SetDimmer
    \/ SetBlindPosition
    \/ BlindDown
    \/ BlindUp
    \/ BlindStop
    \/ Hold
    \/ Decode
    \/ NewDimmerConfig
    \/ Available
    \/ Return

Spec == Init /\ [][Next]_vars

---------------------------------------------------------------------------
(* The properties. *)

\* |10 * n - t| <= 5: the integer n is a nearest integer of t tenths.
Nearest(n, t) == 10 * n - t <= 5 /\ t - 10 * n <= 5
Tie(n, t) == 10 * n - t = 5 \/ t - 10 * n = 5

TheRequest == sent[1]
Url(path) == host \o "/api/v1" \o path
FormHeaders == {<<"Content-Type", "application/x-www-form-urlencoded">>}

\* C1: device() on a /device mapping with no entry fails with the error of
\* the empty response (the one it logs as "empty device response");
\* on a mapping with two or more entries it emits one warning and ends as the
\* decode of the first entry's value ends, returning what that returns.
C1_DeviceFirstEntry ==
    (op = "device" /\ resp.json) =>
        LET entries == resp.body.entries
        IN  /\ Len(entries) = 0 =>
                   /\ ~result.ok
                   /\ result.err.kind = "RuntimeError"
                   /\ logs = <<LogRec("error", "empty device response")>>
            /\ Len(entries) >= 2 =>
                   LET first == External_from_json(entries[1].value)
                   IN  /\ WarningLines(logs) = 1
                       /\ result.ok = first.ok
                       /\ result.val = first.val
                       /\ result.err = first.err

C1_Witness ==
    /\ op = "device"
    /\ resp.json
    /\ Len(resp.body.entries) = 2
    /\ resp.body.entries[1].value = OtherExternal
    /\ resp.body.entries[2].value = GoodExternal
    /\ result.ok
    /\ result.val.fields.id = Num(2)
    /\ WarningLines(logs) = 1

\* C2: set_led issues one POST to /led/set whose body starts with
\* action=toggle, action=on or action=off for state None, True or False;
\* without a color nothing follows; with a color (h, s, v) the body goes on
\* with color=H;S;V and mode=hsv, S and V nearest integers of s and v, H in
\* 0..359 and congruent modulo 360 to a nearest integer of h.  state None
\* with color (400, 50.6, 100.4) gives action=toggle, color=40;51;100, mode=hsv.
C2_SetLedBody ==
    op = "set_led" =>
        LET action == IF args.state = Null THEN "toggle"
                      ELSE IF args.state = Bool(TRUE) THEN "on" ELSE "off"
        IN  /\ Len(sent) = 1
            /\ TheRequest.method = "POST"
            /\ TheRequest.url = Url("/led/set")
            /\ args.color = Null => TheRequest.body = "action=" \o action
            /\ args.color # Null =>
                   LET hs == {n % 360 : n \in {m \in -1..401 : Nearest(m, args.color.hsv[1])}}
                       ss == {x \in 0..101 : Nearest(x, args.color.hsv[2])}
                       vs == {x \in 0..101 : Nearest(x, args.color.hsv[3])}
                   IN  \E H \in hs \cap 0..359, S \in ss, V \in vs :
                           TheRequest.body =
                               "action=" \o action \o "&color=" \o ToString(H) \o ";"
                               \o ToString(S) \o ";" \o ToString(V) \o "&mode=hsv"
            /\ (args.state = Null /\ args.color = [hsv |-> <<4000, 506, 1004>>]) =>
                   TheRequest.body = "action=toggle&color=40;51;100&mode=hsv"

C2_Witness ==
    /\ op = "set_led"
    /\ args.state = Null
    /\ args.color = [hsv |-> <<4000, 506, 1004>>]
    /\ TheRequest.body = "action=toggle&color=40;51;100&mode=hsv"

\* C3: set_blind_position(index, position) issues exactly one POST, to
\* /shade/{index}, with the body blind=N, N a nearest integer of position
\* and, for a position half-way between two integers, the even one of them;
\* set_blind_position(2, 57.5) posts blind=58 to /shade/2.
C3_BlindPositionRounded ==
    op = "set_blind_position" =>
        /\ Len(sent) = 1
        /\ TheRequest.method = "POST"
        /\ TheRequest.url = Url("/shade/" \o ToString(args.index))
        /\ \E N \in 0..101 :
               /\ Nearest(N, args.position)
               /\ Tie(N, args.position) => N % 2 = 0
               /\ TheRequest.body = "blind=" \o ToString(N)
        /\ (args.index = 2 /\ args.position = 575) =>
               /\ TheRequest.url = host \o "/api/v1/shade/2"
               /\ TheRequest.body = "blind=58"

C3_Witness ==
    /\ op = "set_blind_position"
    /\ args.index = 2
    /\ args.position = 575
    /\ Len(sent) = 1
    /\ TheRequest.body = "blind=58"

\* The path and the parameters, in order, of a write operation.
WriteOps == {"set_led", "set_dimmer", "set_blind_position", "blind_down", "blind_up", "blind_stop"}
WritePath ==
    IF op = "set_led" THEN "/led/set"
    ELSE IF op = "set_dimmer"
    THEN "/dimmer/" \o ToString(args.index) \o (IF args.state THEN "/on" ELSE "/off")
    ELSE IF op = "set_blind_position" THEN "/shade/" \o ToString(args.index)
    ELSE IF op = "blind_down" THEN "/shade/" \o ToString(args.index) \o "/down"
    ELSE IF op = "blind_up" THEN "/shade/" \o ToString(args.index) \o "/up"
    ELSE "/shade/" \o ToString(args.index) \o "/stop"
WriteParams ==
    IF op = "set_led"
    THEN <<<<"action", led_action(args.state)>>>>
         \o (IF args.color = Null THEN <<>>
             ELSE <<<<"color", led_color(args.color)[1].value.str>>, <<"mode", "hsv">>>>)
    ELSE IF op = "set_dimmer"
    THEN (IF args.value = Null THEN <<>> ELSE <<<<"value", ToString(round(args.value.num))>>>>)
    ELSE IF op = "set_blind_position" THEN <<<<"blind", ToString(round(args.position))>>>>
    ELSE <<>>

\* C4: a write operation posts to {host}/api/v1{path}; with parameters the
\* body is their key=value pairs joined by & in order, the values as they
\* are, and the Content-Type is application/x-www-form-urlencoded; without
\* parameters there is no body and no Content-Type.
C4_FormBody ==
    op \in WriteOps =>
        LET ps == WriteParams
        IN  /\ Len(sent) = 1
            /\ TheRequest.method = "POST"
            /\ TheRequest.url = Url(WritePath)
            /\ Len(ps) = 0 =>
                   ~TheRequest.has_body /\ TheRequest.headers = {}
            /\ Len(ps) > 0 =>
                   /\ TheRequest.has_body
                   /\ TheRequest.headers = FormHeaders
                   /\ Len(ps) = 1 => TheRequest.body = ps[1][1] \o "=" \o ps[1][2]
                   /\ Len(ps) = 3 =>
                          TheRequest.body = ps[1][1] \o "=" \o ps[1][2] \o "&" \o ps[2][1] \o "="
                                            \o ps[2][2] \o "&" \o ps[3][1] \o "=" \o ps[3][2]
                   /\ Len(ps) \in {1, 3}
            /\ op \in {"blind_down", "blind_up", "blind_stop"} => ~TheRequest.has_body

C4_Witness ==
    /\ op = "set_led"
    /\ args.state = Bool(TRUE)
    /\ args.color = [hsv |-> <<3594, 0, 15>>]
    /\ TheRequest.url = host \o "/api/v1/led/set"
    /\ TheRequest.body = "action=on&color=359;0;2&mode=hsv"
    /\ TheRequest.headers = FormHeaders

\* A call of StateV2.from_json or SensorsV2.from_json that got a raw value, and
\* the value it got.
DecodeCall == (op = "state" /\ resp.json) \/ op = "from_json"
DecodeInput == IF op = "state" THEN resp.body ELSE args
DecodeClass == IF op = "state" THEN "StateV2" ELSE held.cls
DecodeErrors == {"KeyError", "TypeError", "AttributeError"}

\* A raw value SensorsV2 cannot be decoded from: no mapping, a required key
\* missing, a PIR that does not decode, a power output that is no {"value": x}.
SensorsBroken(v) ==
    \/ ~IsObj(v)
    \/ ~(SensorsV2_Required \subseteq Keys(v))
    \/ ~PIR_list_from_json(v.obj.pirs).ok
    \/ HandlePowerOutputs(v.obj.power_outputs).kind # ""

StateBroken(v) ==
    \/ ~IsObj(v)
    \/ ~(StateV2_Required \subseteq Keys(v))
    \/ ~External_list_from_json(v.obj.dimmers).ok
    \/ ~External_list_from_json(v.obj.blinds).ok
    \/ ~External_from_json(v.obj.led).ok
    \/ SensorsBroken(v.obj.sensors)
    \/ ~ThermostatV2_from_json(v.obj.thermostat).ok
    \/ ~External_from_json(v.obj.wifi).ok
    \/ ~External_from_json(v.obj.config).ok

IsListOfInst(v) == IsList(v) /\ \A i \in 1..Len(v.list) : IsNull(v.list[i]) \/ IsInst(v.list[i])

SensorsPopulated(x) ==
    /\ IsInst(x)
    /\ x.cls = "SensorsV2"
    /\ DOMAIN x.fields = SensorsV2_Required \cup SensorsV2_Optional
    /\ IsListOfInst(x.fields.pirs)
    /\ IsList(x.fields.power_outputs) =>
           \A i \in 1..Len(x.fields.power_outputs.list) : ~IsObj(x.fields.power_outputs.list[i])

StatePopulated(x) ==
    /\ IsInst(x)
    /\ x.cls = "StateV2"
    /\ DOMAIN x.fields = StateV2_Required \cup StateV2_Optional
    /\ IsListOfInst(x.fields.dimmers)
    /\ IsListOfInst(x.fields.blinds)
    /\ IsInst(x.fields.led)
    /\ SensorsPopulated(x.fields.sensors)
    /\ IsInst(x.fields.thermostat)
    /\ IsInst(x.fields.wifi)
    /\ IsInst(x.fields.config)

\* C6: a StateV2 or SensorsV2 decode of a raw value with a required key
\* missing or a nested value that does not decode fails; a decode that fails
\* raises a decode error and returns no instance; a decode that returns
\* returns an instance with every field decoded.
C6_AllOrNothing ==
    DecodeCall =>
        /\ (IF DecodeClass = "StateV2" THEN StateBroken(DecodeInput)
            ELSE SensorsBroken(DecodeInput)) => ~result.ok
        /\ ~result.ok => result.val = Null /\ result.err.kind \in DecodeErrors
        /\ result.ok => IF DecodeClass = "StateV2" THEN StatePopulated(result.val)
                        ELSE SensorsPopulated(result.val)

C6_Witness ==
    /\ op = "state"
    /\ resp.json
    /\ resp.body = Obj(SetKey(GoodState, "wifi", BadExternal))
    /\ ~result.ok
    /\ result.val = Null

\* C5 (as claimed): a system config mapping with every required key, in which
\* each optional key is left out or holds a value that decodes, decodes, and
\* temp_comp is None without the key and the TempComp decode with it.
SystemConfigOptionalOk(v) ==
    /\ IsObj(v)
    /\ SystemConfigV2_Required \subseteq Keys(v)
    /\ "temp_comp" \in Keys(v) => External_from_json(v.obj.temp_comp).ok
    /\ "sunrise" \in Keys(v) => Time_from_json(v.obj.sunrise).ok
    /\ "sunset" \in Keys(v) => Time_from_json(v.obj.sunset).ok
    /\ "dyn_light" \in Keys(v) => DynLight_from_json(v.obj.dyn_light).ok

C5_OptionalFieldsMayBeOmitted ==
    (op = "system_config" /\ resp.json /\ SystemConfigOptionalOk(resp.body)) =>
        /\ result.ok
        /\ "temp_comp" \notin Keys(resp.body) => result.val.fields.temp_comp = Null
        /\ "temp_comp" \in Keys(resp.body) =>
               result.val.fields.temp_comp = External_from_json(resp.body.obj.temp_comp).val

\* C7 (as claimed): a StateV2, SensorsV2 or SystemConfigV2 decode that fails
\* leaves exactly one error line in the log.
C7_OneErrorLine ==
    ((DecodeCall \/ (op = "system_config" /\ resp.json)) /\ ~result.ok) => ErrorLines(logs) = 1

ReadOps ==
    {"info", "device", "state", "system_config", "dimmer_config", "blind_config", "pir_config"}

\* The transport's errors for a response (aiohttp's ContentTypeError is a
\* ClientResponseError too).
HttpErrors == {"ClientResponseError", "ContentTypeError"}

\* C8 (as claimed): an operation the device answers with an error status
\* never returns normally, it fails with the transport's error for the
\* response.
C8_ErrorStatusRaises ==
    (op \in ReadOps \cup WriteOps /\ resp.status >= 400) =>
        ~result.ok /\ result.err.kind \in HttpErrors

\* C9 (as claimed): available is true exactly for a non-empty name together
\* with a light configuration that is not None.
C9_AvailableNameAndLight ==
    op = "available" =>
        (result.val = Bool(TRUE)
            <=> (args.fields.name \notin {Str(""), Null} /\ args.fields.light # Null))

\* C9 (amended): available is true exactly for a non-empty name, whatever the
\* light configuration is.
C9_AvailableName ==
    op = "available" => (result.val = Bool(TRUE) <=> args.fields.name \notin {Str(""), Null})

C9_Witness ==
    /\ op = "available"
    /\ args.fields.name = Str("Desk")
    /\ args.fields.light = Null
    /\ result.val = Bool(TRUE)

\* C10 (as claimed): from_json leaves the raw mapping its caller holds as it
\* was, and a second from_json on it ends as the first did.
C10_RawUnchanged ==
    /\ held.raw = held.raw0
    /\ Len(outcomes) >= 2 => outcomes[2] = outcomes[1]

===========================================================================
